---- MODULE Spec2Model ----
(***************************************************************************)
(* Warehouse management: the domain entities (Product, OrderItem, Order),  *)
(* the WarehouseService use cases, the SQLAlchemy repositories they run    *)
(* against and the unit of work that wraps a service call.                 *)
(*                                                                         *)
(* An operation that can raise is an operator returning a record           *)
(* [ok, err, val]: ok = FALSE carries the raised exception in err, and val *)
(* is then the object as the raise left it.                                *)
(***************************************************************************)
EXTENDS Integers, Sequences, FiniteSets, TLC

\* ---------------------------------------------------------------- bounds
MaxProducts == 2        \* products ever held by the product table at once
MaxOrders == 1          \* orders held by the order table
MaxStock == 2           \* cap on a product's quantity
MaxQty == 2             \* largest quantity of a request pair or restock
MaxPairs == 2           \* longest create_order request list
MaxItems == 3           \* cap on total_items of the in-memory Order

\* Optional[int] identity: None
NoId == 0

Statuses == {"pending", "confirmed", "completed", "cancelled"}
Names == {"a", "b"}
BlankNames == {"", " "}
Prices == {1, 2}

\* ------------------------------------------------------------- exceptions
NoErr == [type |-> "none", msg |-> "", value |-> 0, requested |-> 0, available |-> 0]

ProductNotFoundError(product_id) ==
    [type |-> "ProductNotFoundError", msg |-> "not found", value |-> product_id,
     requested |-> 0, available |-> 0]

OrderNotFoundError(order_id) ==
    [type |-> "OrderNotFoundError", msg |-> "not found", value |-> order_id,
     requested |-> 0, available |-> 0]

\* mutant: requested and available are swapped
InsufficientStockError_swapped(product_name, requested, available) ==
    [type |-> "InsufficientStockError", msg |-> product_name, value |-> 0,
     requested |-> available, available |-> requested]

InsufficientStockError(product_name, requested, available) ==
    [type |-> "InsufficientStockError", msg |-> product_name, value |-> 0,
     requested |-> requested, available |-> available]

InvalidPriceError(price) ==
    [type |-> "InvalidPriceError", msg |-> "Price must be positive", value |-> price,
     requested |-> 0, available |-> 0]

InvalidQuantityError(quantity) ==
    [type |-> "InvalidQuantityError", msg |-> "Quantity must be positive",
     value |-> quantity, requested |-> 0, available |-> 0]

ValueError(msg) ==
    [type |-> "ValueError", msg |-> msg, value |-> 0, requested |-> 0, available |-> 0]

Return(v) == [ok |-> TRUE, err |-> NoErr, val |-> v]
Raise(e, v) == [ok |-> FALSE, err |-> e, val |-> v]

\* ---------------------------------------------------------------- Product
\* name.strip() is empty
IsBlank(name) == name \in BlankNames

\* mutant: a quantity of zero is refused too
validate_positive_quantity(p) ==
    IF p.price <= 0 THEN Raise(InvalidPriceError(p.price), p)
    ELSE IF p.quantity <= 0 THEN Raise(InvalidQuantityError(p.quantity), p)
    ELSE IF IsBlank(p.name) THEN Raise(ValueError("Product name cannot be empty"), p)
    ELSE Return(p)

validate(p) ==
    IF p.price <= 0 THEN Raise(InvalidPriceError(p.price), p)
    ELSE IF p.quantity < 0 THEN Raise(InvalidQuantityError(p.quantity), p)
    ELSE IF IsBlank(p.name) THEN Raise(ValueError("Product name cannot be empty"), p)
    ELSE Return(p)

\* Product(id, name, quantity, price): the dataclass constructor and __post_init__
Product(id, name, quantity, price) ==
    validate([id |-> id, name |-> name, quantity |-> quantity, price |-> price])

\* mutant: the checks are made but the quantity is not decremented
reduce_quantity_kept(p, amount) ==
    IF amount <= 0 THEN Raise(InvalidQuantityError(amount), p)
    ELSE IF amount > p.quantity
        THEN Raise([type |-> "InsufficientStockError", msg |-> p.name, value |-> 0,
                    requested |-> amount, available |-> p.quantity], p)
    ELSE Return(p)

\* mutant: an amount above the stock takes what is there
reduce_quantity_clamped(p, amount) ==
    IF amount <= 0 THEN Raise(InvalidQuantityError(amount), p)
    ELSE IF amount > p.quantity THEN Return([p EXCEPT !.quantity = 0])
    ELSE Return([p EXCEPT !.quantity = p.quantity - amount])

reduce_quantity(p, amount) ==
    IF amount <= 0 THEN Raise(InvalidQuantityError(amount), p)
    ELSE IF amount > p.quantity
        THEN Raise(InsufficientStockError(p.name, amount, p.quantity), p)
    ELSE Return([p EXCEPT !.quantity = p.quantity - amount])

\* mutant: the quantity is incremented by one, not by amount
increase_quantity_by_one(p, amount) ==
    IF amount <= 0 THEN Raise(InvalidQuantityError(amount), p)
    ELSE Return([p EXCEPT !.quantity = p.quantity + 1])

\* mutant: the amount is not checked
increase_quantity_unchecked(p, amount) ==
    Return([p EXCEPT !.quantity = p.quantity + amount])

increase_quantity(p, amount) ==
    IF amount <= 0 THEN Raise(InvalidQuantityError(amount), p)
    ELSE Return([p EXCEPT !.quantity = p.quantity + amount])

is_in_stock(p) == p.quantity > 0

\* -------------------------------------------------------------- OrderItem
OrderItem(product, quantity, price_at_order) ==
    LET it == [product |-> product, quantity |-> quantity,
               price_at_order |-> price_at_order]
    IN  IF quantity <= 0 THEN Raise(InvalidQuantityError(quantity), it)
        ELSE IF price_at_order <= 0 THEN Raise(InvalidPriceError(price_at_order), it)
        ELSE Return(it)

item_total_price(it) == it.quantity * it.price_at_order

\* ------------------------------------------------------------------ Order
\* Order(id, status): items default to the empty list
Order(id, status) == [id |-> id, items |-> <<>>, status |-> status]

\* mutant: a product without identity matches no line
FirstLine_assigned(items, product_id) ==
    IF product_id # NoId /\ \E i \in 1..Len(items) : items[i].product.id = product_id
    THEN CHOOSE i \in 1..Len(items) :
            /\ items[i].product.id = product_id
            /\ \A j \in 1..(i - 1) : items[j].product.id # product_id
    ELSE 0

\* index of the first line whose product has this identity, 0 when none
FirstLine(items, product_id) ==
    IF \E i \in 1..Len(items) : items[i].product.id = product_id
    THEN CHOOSE i \in 1..Len(items) :
            /\ items[i].product.id = product_id
            /\ \A j \in 1..(i - 1) : items[j].product.id # product_id
    ELSE 0

\* mutant: a merge overwrites the line's quantity instead of adding to it
add_item_overwrite(o, product, quantity) ==
    IF quantity <= 0 THEN Raise(InvalidQuantityError(quantity), o)
    ELSE LET i == FirstLine(o.items, product.id) IN
         IF i # 0
         THEN Return([o EXCEPT !.items[i].quantity = quantity])
         ELSE LET it == OrderItem(product, quantity, product.price) IN
              IF ~it.ok THEN Raise(it.err, o)
              ELSE Return([o EXCEPT !.items = Append(@, it.val)])

\* mutant: a merge takes the price of the product passed to it
add_item_reprice(o, product, quantity) ==
    IF quantity <= 0 THEN Raise(InvalidQuantityError(quantity), o)
    ELSE LET i == FirstLine(o.items, product.id) IN
         IF i # 0
         THEN Return([o EXCEPT !.items[i].quantity = @ + quantity,
                               !.items[i].price_at_order = product.price])
         ELSE LET it == OrderItem(product, quantity, product.price) IN
              IF ~it.ok THEN Raise(it.err, o)
              ELSE Return([o EXCEPT !.items = Append(@, it.val)])

add_item(o, product, quantity) ==
    IF quantity <= 0 THEN Raise(InvalidQuantityError(quantity), o)
    ELSE LET i == FirstLine(o.items, product.id) IN
         IF i # 0
         THEN Return([o EXCEPT !.items[i].quantity = @ + quantity])
         ELSE LET it == OrderItem(product, quantity, product.price) IN
              IF ~it.ok THEN Raise(it.err, o)
              ELSE Return([o EXCEPT !.items = Append(@, it.val)])

RECURSIVE Filter(_, _)
Filter(items, product_id) ==
    IF items = <<>> THEN <<>>
    ELSE IF Head(items).product.id # product_id
         THEN <<Head(items)>> \o Filter(Tail(items), product_id)
         ELSE Filter(Tail(items), product_id)

\* mutant: removing a product the order has no line of is an error
remove_item_strict(o, product_id) ==
    IF FirstLine(o.items, product_id) = 0
    THEN Raise(ValueError("Product not in order"), o)
    ELSE Return([o EXCEPT !.items = Filter(o.items, product_id)])

remove_item(o, product_id) == Return([o EXCEPT !.items = Filter(o.items, product_id)])

RECURSIVE SumQty(_)
SumQty(items) ==
    IF items = <<>> THEN 0 ELSE Head(items).quantity + SumQty(Tail(items))

RECURSIVE SumPrice(_)
SumPrice(items) ==
    IF items = <<>> THEN 0 ELSE item_total_price(Head(items)) + SumPrice(Tail(items))

\* mutant: the lines are counted, not their quantities
total_items_lines(o) == Len(o.items)

total_items(o) == SumQty(o.items)
total_price(o) == SumPrice(o.items)

\* mutant: the empty-order check is dropped
confirm_unchecked(o) == Return([o EXCEPT !.status = "confirmed"])

confirm(o) ==
    IF Len(o.items) = 0 THEN Raise(ValueError("Cannot confirm empty order"), o)
    ELSE Return([o EXCEPT !.status = "confirmed"])

\* mutant: the confirmed check is dropped
complete_unchecked(o) == Return([o EXCEPT !.status = "completed"])

complete(o) ==
    IF o.status # "confirmed"
    THEN Raise(ValueError("Can only complete confirmed orders"), o)
    ELSE Return([o EXCEPT !.status = "completed"])

\* mutant: the completed check is dropped
cancel_unchecked(o) == Return([o EXCEPT !.status = "cancelled"])

cancel(o) ==
    IF o.status = "completed" THEN Raise(ValueError("Cannot cancel completed order"), o)
    ELSE Return([o EXCEPT !.status = "cancelled"])

\* ------------------------------------------------------------ repositories
\* The session's view of the database: ctx.products maps a product id to its
\* row [name, quantity, price], ctx.orders maps an order id to its row
\* [status, items] where items are the order_items rows
\* [product_id, quantity, price_at_order]; ctx.updates counts the
\* product_repo.update calls issued so far.
EmptyTables == [products |-> <<>>, orders |-> <<>>]

Max(S) == IF S = {} THEN 0 ELSE CHOOSE x \in S : \A y \in S : y <= x

\* INTEGER PRIMARY KEY: the next rowid is the largest one in the table plus one
NextId(table) == Max(DOMAIN table) + 1

product_to_domain(products, product_id) ==
    Product(product_id, products[product_id].name, products[product_id].quantity,
            products[product_id].price).val

product_repo_add(ctx, product) ==
    LET id == NextId(ctx.products)
        row == [name |-> product.name, quantity |-> product.quantity,
                price |-> product.price]
    IN  [ok |-> TRUE, err |-> NoErr,
         val |-> [product EXCEPT !.id = id],
         ctx |-> [ctx EXCEPT !.products = (id :> row) @@ ctx.products]]

\* product_repo.get: found = FALSE stands for None
product_repo_get(ctx, product_id) ==
    IF product_id \in DOMAIN ctx.products
    THEN [found |-> TRUE, val |-> product_to_domain(ctx.products, product_id)]
    ELSE [found |-> FALSE, val |-> NoId]

product_repo_get_by_name(ctx, name) ==
    IF \E id \in DOMAIN ctx.products : ctx.products[id].name = name
    THEN [found |-> TRUE,
          val |-> product_to_domain(ctx.products,
                     CHOOSE id \in DOMAIN ctx.products : ctx.products[id].name = name)]
    ELSE [found |-> FALSE, val |-> NoId]

product_repo_update(ctx, product) ==
    IF product.id \notin DOMAIN ctx.products
    THEN [ok |-> FALSE, err |-> ValueError("Product not found"), val |-> product,
          ctx |-> [ctx EXCEPT !.updates = @ + 1]]
    ELSE [ok |-> TRUE, err |-> NoErr, val |-> product,
          ctx |-> [ctx EXCEPT !.updates = @ + 1,
                              !.products[product.id] =
                                  [name |-> product.name, quantity |-> product.quantity,
                                   price |-> product.price]]]

product_repo_delete(ctx, product_id) ==
    IF product_id \notin DOMAIN ctx.products
    THEN [ok |-> TRUE, err |-> NoErr, val |-> FALSE, ctx |-> ctx]
    ELSE [ok |-> TRUE, err |-> NoErr, val |-> TRUE,
          ctx |-> [ctx EXCEPT !.products =
                      [id \in DOMAIN ctx.products \ {product_id} |-> ctx.products[id]]]]

\* the order_items rows written for an in-memory order
ItemRows(items) ==
    [i \in 1..Len(items) |->
        [product_id |-> items[i].product.id, quantity |-> items[i].quantity,
         price_at_order |-> items[i].price_at_order]]

order_repo_add(ctx, o) ==
    LET id == NextId(ctx.orders)
        row == [status |-> o.status, items |-> ItemRows(o.items)]
    IN  [ok |-> TRUE, err |-> NoErr,
         val |-> [o EXCEPT !.id = id],
         ctx |-> [ctx EXCEPT !.orders = (id :> row) @@ ctx.orders]]

\* _to_domain: every line's product is rebuilt from the products row the
\* order_items row joins to
\* mutant: a loaded line takes the price the product has now
order_to_domain_live(ctx, order_id) ==
    LET row == ctx.orders[order_id] IN
    [id |-> order_id,
     status |-> row.status,
     items |-> [i \in 1..Len(row.items) |->
                  OrderItem(product_to_domain(ctx.products, row.items[i].product_id),
                            row.items[i].quantity,
                            ctx.products[row.items[i].product_id].price).val]]

order_to_domain(ctx, order_id) ==
    LET row == ctx.orders[order_id] IN
    [id |-> order_id,
     status |-> row.status,
     items |-> [i \in 1..Len(row.items) |->
                  OrderItem(product_to_domain(ctx.products, row.items[i].product_id),
                            row.items[i].quantity, row.items[i].price_at_order).val]]

order_repo_get(ctx, order_id) ==
    IF order_id \in DOMAIN ctx.orders
    THEN [found |-> TRUE, val |-> order_to_domain(ctx, order_id)]
    ELSE [found |-> FALSE, val |-> NoId]

\* only the status column is written; item changes are not persisted
order_repo_update(ctx, o) ==
    IF o.id \notin DOMAIN ctx.orders
    THEN [ok |-> FALSE, err |-> ValueError("Order not found"), val |-> o, ctx |-> ctx]
    ELSE [ok |-> TRUE, err |-> NoErr, val |-> o,
          ctx |-> [ctx EXCEPT !.orders[o.id].status = o.status]]

\* -------------------------------------------------------- WarehouseService
\* A use case returns [ok, err, val, ctx]: ctx is the session's view when the
\* call returned or raised, so a raise part-way keeps the writes flushed
\* before it.
Fail(e, ctx) == [ok |-> FALSE, err |-> e, val |-> NoId, ctx |-> ctx]

get_product(ctx, product_id) ==
    LET product == product_repo_get(ctx, product_id) IN
    IF ~product.found THEN Fail(ProductNotFoundError(product_id), ctx)
    ELSE [ok |-> TRUE, err |-> NoErr, val |-> product.val, ctx |-> ctx]

\* mutant: the name is not looked up before the product is added
create_product_unchecked(ctx, name, quantity, price) ==
    LET product == Product(NoId, name, quantity, price) IN
    IF ~product.ok THEN Fail(product.err, ctx)
    ELSE product_repo_add(ctx, product.val)

create_product(ctx, name, quantity, price) ==
    LET existing == product_repo_get_by_name(ctx, name) IN
    IF existing.found THEN Fail(ValueError("already exists"), ctx)
    ELSE LET product == Product(NoId, name, quantity, price) IN
         IF ~product.ok THEN Fail(product.err, ctx)
         ELSE product_repo_add(ctx, product.val)

\* mutant: the price is assigned on the loaded object, which validates nothing
update_product_price_assigned(ctx, product_id, new_price) ==
    LET old_product == get_product(ctx, product_id) IN
    IF ~old_product.ok THEN old_product
    ELSE product_repo_update(ctx, [old_product.val EXCEPT !.price = new_price])

\* mutant: the row is updated first and the price validated afterwards
update_product_price_late(ctx, product_id, new_price) ==
    LET old_product == get_product(ctx, product_id) IN
    IF ~old_product.ok THEN old_product
    ELSE LET written == product_repo_update(ctx, [old_product.val EXCEPT !.price = new_price])
             new_product == Product(old_product.val.id, old_product.val.name,
                                    old_product.val.quantity, new_price)
         IN  IF ~new_product.ok THEN Fail(new_product.err, written.ctx)
             ELSE written

\* dataclasses.replace: a new instance, validated by __post_init__
update_product_price(ctx, product_id, new_price) ==
    LET old_product == get_product(ctx, product_id) IN
    IF ~old_product.ok THEN old_product
    ELSE LET new_product == Product(old_product.val.id, old_product.val.name,
                                    old_product.val.quantity, new_price) IN
         IF ~new_product.ok THEN Fail(new_product.err, ctx)
         ELSE product_repo_update(ctx, new_product.val)

\* mutant: the update is issued before the amount is checked
restock_product_late(ctx, product_id, quantity) ==
    LET product == get_product(ctx, product_id) IN
    IF ~product.ok THEN product
    ELSE LET written == product_repo_update(ctx, product.val)
             inc == increase_quantity(product.val, quantity)
         IN  IF ~inc.ok THEN Fail(inc.err, written.ctx)
             ELSE product_repo_update(written.ctx, inc.val)

restock_product(ctx, product_id, quantity) ==
    LET product == get_product(ctx, product_id) IN
    IF ~product.ok THEN product
    ELSE LET inc == increase_quantity(product.val, quantity) IN
         IF ~inc.ok THEN Fail(inc.err, ctx)
         ELSE product_repo_update(ctx, inc.val)

\* mutant: lines of cancelled orders are not counted as references
Referenced_active(ctx, product_id) ==
    \E oid \in DOMAIN ctx.orders :
        /\ ctx.orders[oid].status # "cancelled"
        /\ \E i \in 1..Len(ctx.orders[oid].items) :
              order_to_domain(ctx, oid).items[i].product.id = product_id

\* some line of some stored order references the product
Referenced(ctx, product_id) ==
    \E oid \in DOMAIN ctx.orders :
        \E i \in 1..Len(ctx.orders[oid].items) :
            order_to_domain(ctx, oid).items[i].product.id = product_id

\* mutant: the product is deleted without looking at the orders
delete_product_unchecked(ctx, product_id) ==
    LET product == get_product(ctx, product_id) IN
    IF ~product.ok THEN product
    ELSE product_repo_delete(ctx, product_id)

delete_product(ctx, product_id) ==
    LET product == get_product(ctx, product_id) IN
    IF ~product.ok THEN product
    ELSE IF Referenced(ctx, product_id)
         THEN Fail(ValueError("it is referenced in order"), ctx)
         ELSE product_repo_delete(ctx, product_id)

\* The line appended by add_item holds the Product object that reduce_quantity
\* then mutates; a merged line holds the object of an earlier load.
SameObject(before, after, product) ==
    IF Len(after.items) > Len(before.items)
    THEN [after EXCEPT !.items[Len(after.items)].product = product]
    ELSE after

\* the loop of create_order over the pairs left, on the order built so far
RECURSIVE create_order_loop(_, _, _)
create_order_loop(ctx, o, product_quantities) ==
    IF product_quantities = <<>>
    THEN [ok |-> TRUE, err |-> NoErr, val |-> o, ctx |-> ctx]
    ELSE LET product_id == Head(product_quantities)[1]
             quantity == Head(product_quantities)[2]
             product == get_product(ctx, product_id)
         IN  IF ~product.ok THEN product
             ELSE IF product.val.quantity < quantity
             THEN Fail(InsufficientStockError(product.val.name, quantity,
                                              product.val.quantity), ctx)
             ELSE LET added == add_item(o, product.val, quantity) IN
                  IF ~added.ok THEN Fail(added.err, ctx)
                  ELSE LET reduced == reduce_quantity(product.val, quantity) IN
                       IF ~reduced.ok THEN Fail(reduced.err, ctx)
                       ELSE LET upd == product_repo_update(ctx, reduced.val) IN
                            IF ~upd.ok THEN Fail(upd.err, upd.ctx)
                            ELSE create_order_loop(upd.ctx,
                                     SameObject(o, added.val, reduced.val),
                                     Tail(product_quantities))

\* mutant: a failed loop hands back the tables it started with
create_order_atomic(ctx, product_quantities) ==
    LET built == create_order_loop(ctx, Order(NoId, "pending"), product_quantities) IN
    IF ~built.ok THEN [built EXCEPT !.ctx = ctx]
    ELSE order_repo_add(built.ctx, built.val)

create_order(ctx, product_quantities) ==
    LET built == create_order_loop(ctx, Order(NoId, "pending"), product_quantities) IN
    IF ~built.ok THEN built
    ELSE order_repo_add(built.ctx, built.val)

\* mutant: a missing order is reported as a missing product
get_order_wrong_error(ctx, order_id) ==
    LET o == order_repo_get(ctx, order_id) IN
    IF ~o.found THEN Fail(ProductNotFoundError(order_id), ctx)
    ELSE [ok |-> TRUE, err |-> NoErr, val |-> o.val, ctx |-> ctx]

get_order(ctx, order_id) ==
    LET o == order_repo_get(ctx, order_id) IN
    IF ~o.found THEN Fail(OrderNotFoundError(order_id), ctx)
    ELSE [ok |-> TRUE, err |-> NoErr, val |-> o.val, ctx |-> ctx]

\* the stock restoring loop of cancel_order over the lines left
RECURSIVE cancel_order_loop(_, _)
cancel_order_loop(ctx, items) ==
    IF items = <<>> THEN [ok |-> TRUE, err |-> NoErr, val |-> NoId, ctx |-> ctx]
    ELSE LET product == get_product(ctx, Head(items).product.id) IN
         IF ~product.ok THEN product
         ELSE LET inc == increase_quantity(product.val, Head(items).quantity) IN
              IF ~inc.ok THEN Fail(inc.err, ctx)
              ELSE LET upd == product_repo_update(ctx, inc.val) IN
                   IF ~upd.ok THEN Fail(upd.err, upd.ctx)
                   ELSE cancel_order_loop(upd.ctx, Tail(items))

\* mutant: the status check is dropped
cancel_order_any_status(ctx, order_id) ==
    LET o == get_order(ctx, order_id) IN
    IF ~o.ok THEN o
    ELSE LET restored == cancel_order_loop(ctx, o.val.items) IN
         IF ~restored.ok THEN restored
         ELSE LET cancelled == cancel(o.val) IN
              IF ~cancelled.ok THEN Fail(cancelled.err, restored.ctx)
              ELSE order_repo_update(restored.ctx, cancelled.val)

cancel_order(ctx, order_id) ==
    LET o == get_order(ctx, order_id) IN
    IF ~o.ok THEN o
    ELSE IF o.val.status \notin {"pending", "confirmed"}
         THEN Fail(ValueError("Cannot cancel order with status"), ctx)
         ELSE LET restored == cancel_order_loop(ctx, o.val.items) IN
              IF ~restored.ok THEN restored
              ELSE LET cancelled == cancel(o.val) IN
                   IF ~cancelled.ok THEN Fail(cancelled.err, restored.ctx)
                   ELSE order_repo_update(restored.ctx, cancelled.val)

\* mutant: the status check is dropped
complete_order_any_status(ctx, order_id) ==
    LET o == get_order(ctx, order_id) IN
    IF ~o.ok THEN o
    ELSE order_repo_update(ctx, [o.val EXCEPT !.status = "completed"])

complete_order(ctx, order_id) ==
    LET o == get_order(ctx, order_id) IN
    IF ~o.ok THEN o
    ELSE IF o.val.status # "confirmed"
         THEN Fail(ValueError("Can only complete confirmed orders"), ctx)
         ELSE order_repo_update(ctx, [o.val EXCEPT !.status = "completed"])

\* A caller confirming a stored order through the repository (there is no
\* confirm use case): order_repo.get, Order.confirm, order_repo.update.
confirm_stored_order(ctx, order_id) ==
    LET o == get_order(ctx, order_id) IN
    IF ~o.ok THEN o
    ELSE LET confirmed == confirm(o.val) IN
         IF ~confirmed.ok THEN Fail(confirmed.err, ctx)
         ELSE order_repo_update(ctx, confirmed.val)

\* ------------------------------------------------------------ unit of work
\* __exit__ of the unit of work around a block that ended with result r, on a
\* database whose committed tables are db: rollback when an exception
\* propagates, commit otherwise.  Returns the tables the session sees next,
\* the committed tables, and whether the exception goes on to the caller
\* (__exit__ returns None, which suppresses nothing).
Tables(ctx) == [products |-> ctx.products, orders |-> ctx.orders]

\* mutant: commit on every exit, also when an exception propagates
uow_exit_commit_always(r, db) ==
    [session |-> Tables(r.ctx), committed |-> Tables(r.ctx), propagates |-> ~r.ok]

\* mutant: roll back on every exit, also when the block ended normally
uow_exit_rollback_always(r, db) ==
    [session |-> db, committed |-> db, propagates |-> ~r.ok]

uow_exit(r, db) ==
    IF ~r.ok
    THEN [session |-> db, committed |-> db, propagates |-> TRUE]
    ELSE [session |-> Tables(r.ctx), committed |-> Tables(r.ctx), propagates |-> FALSE]

\* What __exit__ does to the session around a block that ended with result
\* r: rollback() when an exception propagates, commit() otherwise, then
\* session.close().  fails says that the commit or the rollback raises; the
\* close that follows it in the code is then not reached.
NoSession == [state |-> "none", commits |-> 0, rollbacks |-> 0]

release(r, fails) ==
    [state |-> IF fails THEN "active" ELSE "closed",
     commits |-> IF r.ok THEN 1 ELSE 0,
     rollbacks |-> IF r.ok THEN 0 ELSE 1]

\* ------------------------------------------------------------------ state
VARIABLES
    products,   \* the products table as the session sees it
    orders,     \* the orders table (with its order_items) as the session sees it
    committed,  \* the committed tables
    uow,        \* "open" inside a with SqlAlchemyUnitOfWork(session) block,
                \* "failed" once __exit__ itself has raised
    baseline,   \* per stored product: quantity it was created with + restocked
    call,       \* the last service call of the block: arguments, outcome, tables
    order,      \* an Order object held in memory
    ocall,      \* the last operation on that Order object
    sample_product,  \* a Product object held in memory: <<>> while none is built
    pcall,      \* the last operation on that Product object
    uow_session, \* the session of the last unit of work: state, commits, rollbacks
    callers     \* two callers inside create_order at once: position and locals

vars == <<products, orders, committed, uow, baseline, call, order, ocall,
          sample_product, pcall, uow_session, callers>>

NoCall ==
    [op |-> "none", args |-> <<>>, ok |-> TRUE, err |-> NoErr, val |-> NoId,
     start |-> EmptyTables, pre |-> EmptyTables, post |-> EmptyTables,
     updates |-> 0, prev |-> [op |-> "none", args |-> <<>>], raised |-> FALSE]

\* no caller is inside create_order
NoCallers == [initial |-> 0, last |-> 0, at |-> <<>>]

NoOCall == [op |-> "none", args |-> <<>>, ok |-> TRUE, err |-> NoErr,
            pre |-> Order(NoId, "pending")]

NoPCall == [op |-> "none", args |-> <<>>, ok |-> TRUE, err |-> NoErr, pre |-> <<>>,
            prev |-> [op |-> "none", args |-> <<>>, ok |-> TRUE, pre |-> <<>>]]

\* the session's view when a call starts
Ctx == [products |-> products, orders |-> orders, updates |-> 0]

\* the bounds of the model on the tables a call leaves
Within(ctx) ==
    /\ DOMAIN ctx.products \subseteq 1..MaxProducts
    /\ DOMAIN ctx.orders \subseteq 1..MaxOrders
    /\ \A id \in DOMAIN ctx.products : ctx.products[id].quantity <= MaxStock

\* A service call made inside the open block, giving r.  The session sees what
\* the call flushed, also when it raised part-way.  call.start is the tables
\* when the block was entered, call.pre the tables when this call started,
\* call.prev the call made before it in the block.
ServiceCall(op, args, r) ==
    /\ uow = "open"
    /\ Within(r.ctx)
    /\ products' = r.ctx.products
    /\ orders' = r.ctx.orders
    /\ call' = [op |-> op, args |-> args, ok |-> r.ok, err |-> r.err, val |-> r.val,
                start |-> IF call.op = "none"
                          THEN [products |-> products, orders |-> orders]
                          ELSE call.start,
                pre |-> [products |-> products, orders |-> orders],
                post |-> Tables(r.ctx), updates |-> r.ctx.updates,
                prev |-> [op |-> call.op, args |-> call.args], raised |-> FALSE]
    /\ UNCHANGED <<committed, uow, order, ocall, sample_product, pcall, uow_session,
                   callers>>

ProductIds == 1..MaxProducts
OrderIds == 1..MaxOrders

Pairs == ProductIds \X (0..MaxQty)
PairLists == UNION {[1..n -> Pairs] : n \in 0..MaxPairs}

Init ==
    /\ products = <<>>
    /\ orders = <<>>
    /\ committed = EmptyTables
    /\ uow = "closed"
    /\ baseline = <<>>
    /\ call = NoCall
    /\ order = Order(NoId, "pending")
    /\ ocall = NoOCall
    /\ sample_product = <<>>
    /\ pcall = NoPCall
    /\ uow_session = NoSession
    /\ callers = NoCallers

\* session = SessionFactory(); with SqlAlchemyUnitOfWork(session):
Enter ==
    /\ uow = "closed"
    /\ uow' = "open"
    /\ call' = NoCall
    /\ products' = committed.products
    /\ orders' = committed.orders
    /\ uow_session' = [state |-> "active", commits |-> 0, rollbacks |-> 0]
    /\ UNCHANGED <<committed, baseline, order, ocall, sample_product, pcall, callers>>

\* the block ends, normally or by the exception the call raised
Exit ==
    /\ uow = "open"
    /\ LET x == uow_exit([ok |-> call.ok, ctx |-> Ctx], committed) IN
        /\ products' = x.session.products
        /\ orders' = x.session.orders
        /\ committed' = x.committed
        /\ call' = [call EXCEPT !.raised = x.propagates]
    /\ uow' = "closed"
    /\ uow_session' = release([ok |-> call.ok], FALSE)
    /\ UNCHANGED <<baseline, order, ocall, sample_product, pcall, callers>>

CreateProduct(name, quantity, price) ==
    LET r == create_product(Ctx, name, quantity, price) IN
    /\ call.op = "none"
    /\ ServiceCall("create_product", <<name, quantity, price>>, r)
    /\ baseline' = IF r.ok THEN (r.val.id :> quantity) @@ baseline ELSE baseline

UpdateProductPrice(product_id, new_price) ==
    LET r == update_product_price(Ctx, product_id, new_price) IN
    /\ call.op = "none"
    /\ ServiceCall("update_product_price", <<product_id, new_price>>, r)
    /\ UNCHANGED baseline

RestockProduct(product_id, quantity) ==
    LET r == restock_product(Ctx, product_id, quantity) IN
    /\ call.op = "none"
    /\ ServiceCall("restock_product", <<product_id, quantity>>, r)
    /\ baseline' = IF r.ok THEN [baseline EXCEPT ![product_id] = @ + quantity]
                   ELSE baseline

DeleteProduct(product_id) ==
    LET r == delete_product(Ctx, product_id) IN
    /\ call.op = "none"
    /\ ServiceCall("delete_product", <<product_id>>, r)
    /\ baseline' = IF r.ok
                   THEN [id \in DOMAIN baseline \ {product_id} |-> baseline[id]]
                   ELSE baseline

CreateOrder(product_quantities) ==
    LET r == create_order(Ctx, product_quantities) IN
    /\ call.op = "none"
    /\ ServiceCall("create_order", product_quantities, r)
    /\ UNCHANGED baseline

CancelOrder(order_id) ==
    LET r == cancel_order(Ctx, order_id) IN
    /\ call.op = "none"
    /\ ServiceCall("cancel_order", <<order_id>>, r)
    /\ UNCHANGED baseline

\* cancel_order(order.id) on the order create_order has just returned, in the
\* same block
CancelCreatedOrder ==
    /\ call.op = "create_order"
    /\ call.ok
    /\ ServiceCall("cancel_order", <<call.val.id>>, cancel_order(Ctx, call.val.id))
    /\ UNCHANGED baseline

CompleteOrder(order_id) ==
    LET r == complete_order(Ctx, order_id) IN
    /\ call.op = "none"
    /\ ServiceCall("complete_order", <<order_id>>, r)
    /\ UNCHANGED baseline

ConfirmStoredOrder(order_id) ==
    LET r == confirm_stored_order(Ctx, order_id) IN
    /\ call.op = "none"
    /\ ServiceCall("confirm", <<order_id>>, r)
    /\ UNCHANGED baseline

\* the WarehouseService use cases, one per unit of work
Next ==
    \/ Enter
    \/ Exit
    \/ \E name \in Names \cup {" "}, quantity \in (-1)..MaxStock, price \in {0} \cup Prices :
          CreateProduct(name, quantity, price)
    \/ \E product_id \in ProductIds, new_price \in {0} \cup Prices :
          UpdateProductPrice(product_id, new_price)
    \/ \E product_id \in ProductIds, quantity \in 0..MaxQty :
          RestockProduct(product_id, quantity)
    \/ \E product_id \in ProductIds : DeleteProduct(product_id)
    \/ \E product_quantities \in PairLists : CreateOrder(product_quantities)
    \/ \E order_id \in OrderIds : CancelOrder(order_id)
    \/ CancelCreatedOrder
    \/ \E order_id \in OrderIds : CompleteOrder(order_id)

Spec == Init /\ [][Next]_vars

\* the use cases and callers that confirm stored orders through the repository
NextStore == Next \/ \E order_id \in OrderIds : ConfirmStoredOrder(order_id)

SpecStore == Init /\ [][NextStore]_vars

\* the block ends and the commit or the rollback that __exit__ issues raises:
\* nothing of the block is committed and the caller sees the exception; what
\* the caller does after it is not followed
ExitFailing ==
    /\ uow = "open"
    /\ products' = committed.products
    /\ orders' = committed.orders
    /\ call' = [call EXCEPT !.raised = TRUE]
    /\ uow' = "failed"
    /\ uow_session' = release([ok |-> call.ok], TRUE)
    /\ UNCHANGED <<committed, baseline, order, ocall, sample_product, pcall, callers>>

\* the use cases on a database whose commit and rollback can fail
NextUow == Next \/ ExitFailing

SpecUow == Init /\ [][NextUow]_vars

GetProduct(product_id) ==
    LET r == get_product(Ctx, product_id) IN
    /\ call.op = "none"
    /\ ServiceCall("get_product", <<product_id>>, r)
    /\ UNCHANGED baseline

GetOrder(order_id) ==
    LET r == get_order(Ctx, order_id) IN
    /\ call.op = "none"
    /\ ServiceCall("get_order", <<order_id>>, r)
    /\ UNCHANGED baseline

\* the use cases together with the two lookups
NextQuery ==
    \/ Next
    \/ \E product_id \in ProductIds : GetProduct(product_id)
    \/ \E order_id \in OrderIds : GetOrder(order_id)

SpecQuery == Init /\ [][NextQuery]_vars

\* ------------------------------------------------- the Order entity alone
\* An Order object built by its constructor in any status, and the Product
\* objects a caller may pass to add_item (identity None included).
ServiceIdle ==
    /\ products = <<>>
    /\ orders = <<>>
    /\ committed = EmptyTables
    /\ uow = "closed"
    /\ baseline = <<>>
    /\ call = NoCall
    /\ uow_session = NoSession
    /\ callers = NoCallers

InitOrder ==
    /\ ServiceIdle
    /\ order \in {Order(1, status) : status \in Statuses}
    /\ ocall = NoOCall
    /\ sample_product = <<>>
    /\ pcall = NoPCall

HeldProducts ==
    {Product(id, "a", MaxStock, price).val :
        id \in {NoId} \cup ProductIds, price \in Prices}

OrderOp(op, args, r) ==
    /\ order' = r.val
    /\ ocall' = [op |-> op, args |-> args, ok |-> r.ok, err |-> r.err, pre |-> order]
    /\ UNCHANGED <<products, orders, committed, uow, baseline, call, sample_product, pcall,
                   uow_session, callers>>

OrderAddItem(product, quantity) ==
    LET r == add_item(order, product, quantity) IN
    /\ total_items(r.val) <= MaxItems
    /\ OrderOp("add_item", <<product, quantity>>, r)

OrderRemoveItem(product_id) ==
    OrderOp("remove_item", <<product_id>>, remove_item(order, product_id))

OrderConfirm == OrderOp("confirm", <<>>, confirm(order))

OrderComplete == OrderOp("complete", <<>>, complete(order))

OrderCancel == OrderOp("cancel", <<>>, cancel(order))

NextOrder ==
    \/ \E product \in HeldProducts, quantity \in 0..MaxQty :
          OrderAddItem(product, quantity)
    \/ \E product_id \in {NoId} \cup ProductIds : OrderRemoveItem(product_id)
    \/ OrderConfirm
    \/ OrderComplete
    \/ OrderCancel

SpecOrder == InitOrder /\ [][NextOrder]_vars

\* Order(id): items and status take their defaults
NewOrder(id) == Order(id, "pending")

\* the same operations on an order just built with the defaults
InitNewOrder ==
    /\ ServiceIdle
    /\ order = NewOrder(1)
    /\ ocall = NoOCall
    /\ sample_product = <<>>
    /\ pcall = NoPCall

SpecNewOrder == InitNewOrder /\ [][NextOrder]_vars

\* ----------------------------------------------- the Product entity alone
\* p = Product(id, name, quantity, price), then p.reduce_quantity(amount) and
\* p.increase_quantity(amount) in any sequence.  A constructor that raises
\* binds no object.
InitProduct ==
    /\ ServiceIdle
    /\ order = Order(NoId, "pending")
    /\ ocall = NoOCall
    /\ sample_product = <<>>
    /\ pcall = NoPCall

ProductOp(op, args, r, after) ==
    /\ sample_product' = after
    /\ pcall' = [op |-> op, args |-> args, ok |-> r.ok, err |-> r.err, pre |-> sample_product,
                 prev |-> [op |-> pcall.op, args |-> pcall.args, ok |-> pcall.ok,
                           pre |-> pcall.pre]]
    /\ UNCHANGED <<products, orders, committed, uow, baseline, call, order, ocall,
                   uow_session, callers>>

ProductConstruct(id, name, quantity, price) ==
    LET r == Product(id, name, quantity, price) IN
    /\ sample_product = <<>>
    /\ ProductOp("Product", <<id, name, quantity, price>>, r,
                 IF r.ok THEN <<r.val>> ELSE <<>>)

ProductReduceQuantity(amount) ==
    LET r == reduce_quantity(sample_product[1], amount) IN
    /\ sample_product # <<>>
    /\ ProductOp("reduce_quantity", <<amount>>, r, <<r.val>>)

ProductIncreaseQuantity(amount) ==
    LET r == increase_quantity(sample_product[1], amount) IN
    /\ sample_product # <<>>
    /\ r.val.quantity <= MaxStock
    /\ ProductOp("increase_quantity", <<amount>>, r, <<r.val>>)

\* the object goes out of scope
ProductDrop ==
    /\ sample_product # <<>>
    /\ ProductOp("del", <<>>, Return(NoId), <<>>)

NextProduct ==
    \/ \E id \in {NoId, 1}, name \in Names \cup BlankNames,
          quantity \in (-1)..MaxStock, price \in {0} \cup Prices :
          ProductConstruct(id, name, quantity, price)
    \/ \E amount \in (-1)..(MaxQty + 1) : ProductReduceQuantity(amount)
    \/ \E amount \in (-1)..(MaxQty + 1) : ProductIncreaseQuantity(amount)
    \/ ProductDrop

SpecProduct == InitProduct /\ [][NextProduct]_vars

\* --------------------------------------------- properties of the service
Holding == {"pending", "confirmed", "completed"}

RECURSIVE LineQty(_, _)
\* the quantity the order_items rows hold of a product
LineQty(rows, product_id) ==
    IF rows = <<>> THEN 0
    ELSE (IF Head(rows).product_id = product_id THEN Head(rows).quantity ELSE 0)
         + LineQty(Tail(rows), product_id)

RECURSIVE HeldIn(_, _, _)
\* the quantity of a product held by the orders ids whose status is holding
HeldIn(tables, ids, product_id) ==
    IF ids = {} THEN 0
    ELSE LET id == CHOOSE x \in ids : TRUE IN
         (IF tables.orders[id].status \in Holding
          THEN LineQty(tables.orders[id].items, product_id) ELSE 0)
         + HeldIn(tables, ids \ {id}, product_id)

Held(tables, product_id) == HeldIn(tables, DOMAIN tables.orders, product_id)

\* the quantity the request pairs before the i-th ask of a product
RECURSIVE AskedBefore(_, _, _)
AskedBefore(pairs, i, product_id) ==
    IF i <= 1 THEN 0
    ELSE (IF pairs[i - 1][1] = product_id THEN pairs[i - 1][2] ELSE 0)
         + AskedBefore(pairs, i - 1, product_id)

RECURSIVE AskedTotal(_)
AskedTotal(pairs) == IF pairs = <<>> THEN 0 ELSE Head(pairs)[2] + AskedTotal(Tail(pairs))

\* what is left of the product of the i-th pair when the loop reaches it
Remaining(tables, pairs, i) ==
    tables.products[pairs[i][1]].quantity - AskedBefore(pairs, i, pairs[i][1])

\* the loop gets past the i-th pair
Processable(tables, pairs, i) ==
    /\ pairs[i][1] \in DOMAIN tables.products
    /\ pairs[i][2] > 0
    /\ pairs[i][2] <= Remaining(tables, pairs, i)

Now == [products |-> products, orders |-> orders]

\* C1: stock conservation.  Outside a block whose call failed (its writes are
\* rolled back when the block exits), every stored product's quantity plus the
\* quantities its pending, confirmed and completed order lines hold equals the
\* quantity it was created with plus all that was restocked.
C1_StockConservation ==
    (uow = "closed" \/ call.ok) =>
        /\ DOMAIN baseline = DOMAIN products
        /\ \A id \in DOMAIN products :
              products[id].quantity + Held(Now, id) = baseline[id]

\* a create_order that failed after reducing the stock of an earlier pair has
\* been rolled back, while a stored order holds stock of a restocked product
C1_Witness ==
    /\ uow = "closed"
    /\ call.op = "create_order"
    /\ ~call.ok
    /\ call.post.products # call.pre.products
    /\ \E id \in DOMAIN products :
          /\ Held(Now, id) > 0
          /\ baseline[id] > products[id].quantity + 1
          /\ products[id].quantity > 0

\* C2: create_order on pairs naming distinct stored products, each with
\* 0 < quantity <= stock, succeeds; the stored order is pending and has one line
\* per pair, in sequence, with the requested quantity; total_items is the sum
\* of the requested quantities; each named product's stock is decreased by its
\* quantity, with one product update per pair; other products are unchanged.
C2_CreateOrderSuccess ==
    LET pairs == call.args
        pre == call.pre
        post == call.post
    IN  ( /\ call.op = "create_order"
          /\ \A i, j \in 1..Len(pairs) : i # j => pairs[i][1] # pairs[j][1]
          /\ \A i \in 1..Len(pairs) :
                /\ pairs[i][1] \in DOMAIN pre.products
                /\ 0 < pairs[i][2]
                /\ pairs[i][2] <= pre.products[pairs[i][1]].quantity )
        =>
        /\ call.ok
        /\ call.val.id \notin DOMAIN pre.orders
        /\ DOMAIN post.orders = DOMAIN pre.orders \cup {call.val.id}
        /\ \A id \in DOMAIN pre.orders : post.orders[id] = pre.orders[id]
        /\ post.orders[call.val.id].status = "pending"
        /\ Len(post.orders[call.val.id].items) = Len(pairs)
        /\ \A i \in 1..Len(pairs) :
              /\ post.orders[call.val.id].items[i].product_id = pairs[i][1]
              /\ post.orders[call.val.id].items[i].quantity = pairs[i][2]
              /\ post.products[pairs[i][1]] =
                    [pre.products[pairs[i][1]] EXCEPT !.quantity = @ - pairs[i][2]]
        /\ total_items(call.val) = AskedTotal(pairs)
        /\ SumQty(post.orders[call.val.id].items) = AskedTotal(pairs)
        /\ call.updates = Len(pairs)
        /\ DOMAIN post.products = DOMAIN pre.products
        /\ \A id \in DOMAIN pre.products :
              (\A i \in 1..Len(pairs) : pairs[i][1] # id) =>
                  post.products[id] = pre.products[id]

\* an order of two lines on two products, one of them asked down to zero
C2_Witness ==
    /\ call.op = "create_order"
    /\ call.ok
    /\ Len(call.args) = 2
    /\ call.args[1][1] # call.args[2][1]
    /\ call.args[1][2] # call.args[2][2]
    /\ call.post.products[call.args[1][1]].quantity = 0

\* C3 as stated: create_order with a pair whose quantity exceeds the product's
\* stored stock fails with InsufficientStock carrying that quantity and that
\* stock, adds no order and leaves that product's stock unchanged.  An earlier
\* pair of the list can fail first with another error, or can have taken
\* stock of the same product.
C3_AsStated ==
    LET pairs == call.args
        pre == call.pre
        post == call.post
    IN  call.op = "create_order" =>
        \A i \in 1..Len(pairs) :
            ( /\ pairs[i][1] \in DOMAIN pre.products
              /\ pairs[i][2] > pre.products[pairs[i][1]].quantity )
            =>
            /\ ~call.ok
            /\ call.err.type = "InsufficientStockError"
            /\ call.err.requested = pairs[i][2]
            /\ call.err.available = pre.products[pairs[i][1]].quantity
            /\ post.orders = pre.orders
            /\ post.products[pairs[i][1]].quantity = pre.products[pairs[i][1]].quantity

\* C3 amended: when the first pair the loop cannot get past is one whose
\* quantity exceeds what is left of its product at that point (the stored
\* stock less what earlier pairs took of it), create_order fails with
\* InsufficientStock carrying that quantity and what is left, adds no order,
\* and the product's stock stays at what is left.
C3_InsufficientStock ==
    LET pairs == call.args
        pre == call.pre
        post == call.post
    IN  call.op = "create_order" =>
        \A i \in 1..Len(pairs) :
            ( /\ \A j \in 1..(i - 1) : Processable(pre, pairs, j)
              /\ pairs[i][1] \in DOMAIN pre.products
              /\ pairs[i][2] > Remaining(pre, pairs, i) )
            =>
            /\ ~call.ok
            /\ call.err.type = "InsufficientStockError"
            /\ call.err.requested = pairs[i][2]
            /\ call.err.available = Remaining(pre, pairs, i)
            /\ post.orders = pre.orders
            /\ post.products[pairs[i][1]].quantity = Remaining(pre, pairs, i)

\* the second pair asks more than the first pair left of the same product
C3_Witness ==
    /\ call.op = "create_order"
    /\ ~call.ok
    /\ call.err.type = "InsufficientStockError"
    /\ Len(call.args) = 2
    /\ call.args[1][1] = call.args[2][1]
    /\ call.err.available > 0
    /\ call.err.available < call.pre.products[call.args[2][1]].quantity

\* C4: cancel_order on a stored pending or confirmed order succeeds; every
\* line's product has its stock increased by that line's quantity, with one
\* product update per line; the stored status becomes cancelled, the lines
\* are unchanged and so are the products no line references.
C4_CancelOrderSuccess ==
    LET id == call.args[1]
        pre == call.pre
        post == call.post
    IN  ( /\ call.op = "cancel_order"
          /\ id \in DOMAIN pre.orders
          /\ pre.orders[id].status \in {"pending", "confirmed"} )
        =>
        /\ call.ok
        /\ \A i \in 1..Len(pre.orders[id].items) :
              LET line == pre.orders[id].items[i] IN
              post.products[line.product_id] =
                  [pre.products[line.product_id] EXCEPT !.quantity = @ + line.quantity]
        /\ call.updates = Len(pre.orders[id].items)
        /\ post.orders = [pre.orders EXCEPT ![id].status = "cancelled"]
        /\ DOMAIN post.products = DOMAIN pre.products
        /\ \A p \in DOMAIN pre.products :
              LineQty(pre.orders[id].items, p) = 0 => post.products[p] = pre.products[p]

\* a confirmed order of two lines is cancelled
C4_Witness ==
    /\ call.op = "cancel_order"
    /\ call.ok
    /\ call.pre.orders[call.args[1]].status = "confirmed"
    /\ Len(call.pre.orders[call.args[1]].items) = 2
    /\ \E i \in 1..2 : call.pre.orders[call.args[1]].items[i].quantity > 1

\* C5: cancel_order on a completed or cancelled order fails with a ValueError
\* and changes nothing: no product update is issued, no quantity and no
\* status changes; so a second cancel of an order restores no stock.
C5_CancelOrderRefused ==
    LET id == call.args[1] IN
    ( /\ call.op = "cancel_order"
      /\ id \in DOMAIN call.pre.orders
      /\ call.pre.orders[id].status \in {"completed", "cancelled"} )
    =>
    /\ ~call.ok
    /\ call.err.type = "ValueError"
    /\ call.updates = 0
    /\ call.post = call.pre

\* the second cancel of an order that has lines
C5_Witness ==
    /\ call.op = "cancel_order"
    /\ ~call.ok
    /\ call.args[1] \in DOMAIN call.pre.orders
    /\ call.pre.orders[call.args[1]].status = "cancelled"
    /\ Len(call.pre.orders[call.args[1]].items) > 0
    /\ uow = "closed"

\* C6: round trip: cancel_order of the order a successful create_order has
\* just returned succeeds, leaves the order cancelled and every product as it
\* was before create_order, also when the list named a product twice.
C6_CreateCancelRoundTrip ==
    (call.op = "cancel_order" /\ call.prev.op = "create_order") =>
        /\ call.ok
        /\ call.post.products = call.start.products
        /\ call.post.orders[call.args[1]].status = "cancelled"
        /\ DOMAIN call.post.orders = DOMAIN call.start.orders \cup {call.args[1]}

\* the cancelled order came from a list naming one product twice
C6_Witness ==
    /\ call.op = "cancel_order"
    /\ call.prev.op = "create_order"
    /\ Len(call.prev.args) = 2
    /\ call.prev.args[1][1] = call.prev.args[2][1]
    /\ call.pre.products # call.start.products

\* ------------------------------------------- properties of the Order entity
Terminal == {"completed", "cancelled"}
Transitions == {"confirm", "complete", "cancel"}

\* C7: terminal states are absorbing: once an Order's status is completed or
\* cancelled, none of confirm(), complete(), cancel() succeeds on it and no
\* Order operation changes its status.  The code breaks it: confirm() has no
\* status check, so it moves a cancelled or completed order that has items to
\* confirmed (and cancel() on a cancelled order returns normally).
C7_TerminalAbsorbing ==
    (ocall.op # "none" /\ ocall.pre.status \in Terminal) =>
        /\ order.status = ocall.pre.status
        /\ (ocall.op \in Transitions => ~ocall.ok)

\* C8: complete() succeeds, giving completed, iff the status is confirmed and
\* otherwise fails leaving the status unchanged; cancel() fails iff the status
\* is completed and otherwise sets the status to cancelled.
C8_CompleteCancelLegal ==
    /\ ocall.op = "complete" =>
          /\ ocall.ok <=> ocall.pre.status = "confirmed"
          /\ ocall.ok => order.status = "completed"
          /\ ~ocall.ok => order.status = ocall.pre.status
    /\ ocall.op = "cancel" =>
          /\ ~ocall.ok <=> ocall.pre.status = "completed"
          /\ ocall.ok => order.status = "cancelled"
          /\ ~ocall.ok => (order.status = ocall.pre.status /\ ocall.err.type = "ValueError")
    /\ ocall.op \in {"complete", "cancel"} => order.items = ocall.pre.items

\* an order confirmed by confirm() and then completed, and a cancel() refused
\* on it afterwards
C8_Witness ==
    /\ ocall.op = "cancel"
    /\ ~ocall.ok
    /\ ocall.pre.status = "completed"
    /\ Len(order.items) > 0

\* C9: confirm() on an Order whose status is confirmed, completed or cancelled
\* fails and leaves the status unchanged, with or without items.  The code
\* breaks it: confirm() only looks at the items.
C9_ConfirmOnlyFromPending ==
    (ocall.op = "confirm" /\ ocall.pre.status # "pending") =>
        (~ocall.ok /\ order.status = ocall.pre.status)

\* C10: confirm() on an order without items fails with the ValueError "Cannot
\* confirm empty order" and leaves the status unchanged; on a pending order
\* with at least one item it succeeds and the status becomes confirmed.
C10_ConfirmEmptyFails ==
    ocall.op = "confirm" =>
        /\ Len(ocall.pre.items) = 0 =>
              /\ ~ocall.ok
              /\ ocall.err.type = "ValueError"
              /\ ocall.err.msg = "Cannot confirm empty order"
              /\ order = ocall.pre
        /\ (ocall.pre.status = "pending" /\ Len(ocall.pre.items) >= 1) =>
              /\ ocall.ok
              /\ order.status = "confirmed"
              /\ order.items = ocall.pre.items

\* confirm() refused on an order emptied again by remove_item
C10_Witness ==
    /\ ocall.op = "confirm"
    /\ ~ocall.ok
    /\ ocall.pre.status = "pending"
    /\ order.items = <<>>


\* ------------------------------------------------------------ claims C11..
\* the indices of the lines of a product identity
LinesOf(items, product_id) == {i \in 1..Len(items) : items[i].product.id = product_id}

\* C11: add_item with a positive quantity for a product identity the order
\* already has a line of succeeds, keeps exactly one line of that identity,
\* adds the quantity to it and keeps the price_at_order the line got from the
\* first add_item, whatever price the product passed now has; every other
\* line is untouched.  For an identity the order has no line of, it appends
\* one line with that quantity at the product's current price.
C11_AddItemMerge ==
    (ocall.op = "add_item" /\ ocall.args[2] > 0) =>
        LET p == ocall.args[1]
            q == ocall.args[2]
            before == ocall.pre.items
            after == order.items
        IN  /\ ocall.ok
            /\ order.status = ocall.pre.status
            /\ IF LinesOf(before, p.id) # {}
               THEN /\ Len(after) = Len(before)
                    /\ Cardinality(LinesOf(after, p.id)) = 1
                    /\ \A i \in 1..Len(after) :
                          IF i \in LinesOf(after, p.id)
                          THEN /\ after[i].quantity = before[i].quantity + q
                               /\ after[i].price_at_order = before[i].price_at_order
                               /\ after[i].product = before[i].product
                          ELSE after[i] = before[i]
               ELSE after = Append(before, [product |-> p, quantity |-> q,
                                            price_at_order |-> p.price])

\* a second add_item of an identity whose product now has another price
C11_Witness ==
    /\ ocall.op = "add_item"
    /\ ocall.ok
    /\ \E i \in LinesOf(ocall.pre.items, ocall.args[1].id) :
          /\ ocall.pre.items[i].price_at_order # ocall.args[1].price
          /\ order.items[i].quantity = ocall.pre.items[i].quantity + ocall.args[2]
          /\ order.items[i].price_at_order = ocall.pre.items[i].price_at_order

\* the stored orders, of any status, that have a line of the product
OrdersWithLine(tables, product_id) ==
    {oid \in DOMAIN tables.orders :
        \E i \in 1..Len(tables.orders[oid].items) :
            tables.orders[oid].items[i].product_id = product_id}

\* C12: delete_product of a stored product fails with a validation error and
\* leaves both tables as they were exactly when some stored order, whatever
\* its status, has a line of that product; otherwise the product's row is
\* removed, nothing else changes and the call returns the store's delete
\* result (True).
C12_DeleteProductGuard ==
    (call.op = "delete_product" /\ call.args[1] \in DOMAIN call.pre.products) =>
        IF OrdersWithLine(call.pre, call.args[1]) # {}
        THEN /\ ~call.ok
             /\ call.err.type = "ValueError"
             /\ call.post = call.pre
        ELSE /\ call.ok
             /\ call.val = TRUE
             /\ DOMAIN call.post.products = DOMAIN call.pre.products \ {call.args[1]}
             /\ \A id \in DOMAIN call.post.products :
                   call.post.products[id] = call.pre.products[id]
             /\ call.post.orders = call.pre.orders

\* a delete refused although every order with a line of the product is cancelled
C12_Witness ==
    /\ call.op = "delete_product"
    /\ call.args[1] \in DOMAIN call.pre.products
    /\ ~call.ok
    /\ OrdersWithLine(call.pre, call.args[1]) # {}
    /\ \A oid \in OrdersWithLine(call.pre, call.args[1]) :
          call.pre.orders[oid].status = "cancelled"
    /\ call.args[1] \in DOMAIN products

\* quantity >= 0 and price > 0, of a Product object or of a products row
ValidStock(p) == p.quantity >= 0 /\ p.price > 0

ValidRows(tables) == \A id \in DOMAIN tables.products : ValidStock(tables.products[id])

ValidLines(o) == \A i \in 1..Len(o.items) : ValidStock(o.items[i].product)

\* C13: every product has quantity >= 0 and price > 0, whatever calls
\* succeeded or failed before: every row of the products table (in the
\* session, as committed, and right after a call, before a rollback), every
\* Product object a service call returned or left inside the order it
\* returned, and every Product object held in memory.
C13_ProductInvariant ==
    /\ ValidRows([products |-> products])
    /\ ValidRows(committed)
    /\ ValidRows(call.pre)
    /\ ValidRows(call.post)
    /\ (call.ok /\ call.op \in {"create_product", "update_product_price",
                                "restock_product"}) => ValidStock(call.val)
    /\ (call.ok /\ call.op \in {"create_order", "cancel_order", "complete_order",
                                "confirm"}) => ValidLines(call.val)
    /\ \A i \in 1..Len(sample_product) : ValidStock(sample_product[i])
    /\ ValidLines(order)

\* stored products after a refused price, a refused restock and an order that
\* took the whole stock of a product
C13_Witness ==
    /\ uow = "open"
    /\ ~call.ok
    /\ call.op \in {"update_product_price", "restock_product"}
    /\ call.err.type \in {"InvalidPriceError", "InvalidQuantityError"}
    /\ \E id \in DOMAIN products : products[id].quantity = 0
    /\ orders # <<>>

\* C14: reduce_quantity(q) with q above the current quantity fails with
\* InsufficientStockError carrying requested = q and available = the current
\* quantity, and the product is unchanged; with 0 < q <= quantity it succeeds
\* and the quantity goes down by exactly q, nothing else changing.
C14_ReduceQuantity ==
    pcall.op = "reduce_quantity" =>
        LET p == pcall.pre[1]
            q == pcall.args[1]
        IN  /\ q > p.quantity =>
                  /\ ~pcall.ok
                  /\ pcall.err.type = "InsufficientStockError"
                  /\ pcall.err.requested = q
                  /\ pcall.err.available = p.quantity
                  /\ sample_product = <<p>>
            /\ (0 < q /\ q <= p.quantity) =>
                  /\ pcall.ok
                  /\ sample_product = <<[p EXCEPT !.quantity = p.quantity - q]>>

\* a product with stock refusing an amount above it
C14_Witness ==
    /\ pcall.op = "reduce_quantity"
    /\ ~pcall.ok
    /\ pcall.pre[1].quantity > 0
    /\ pcall.args[1] > pcall.pre[1].quantity
    /\ sample_product = pcall.pre

\* C15: reduce_quantity(q) with 0 < q <= quantity followed by
\* increase_quantity(q) both succeed and leave the product as it was before
\* the two calls.
C15_ReduceIncreaseRoundTrip ==
    (/\ pcall.op = "increase_quantity"
     /\ pcall.prev.op = "reduce_quantity"
     /\ pcall.prev.args = pcall.args
     /\ 0 < pcall.args[1]
     /\ pcall.args[1] <= pcall.prev.pre[1].quantity) =>
        /\ pcall.prev.ok
        /\ pcall.ok
        /\ sample_product = pcall.prev.pre

\* the whole stock taken and put back
C15_Witness ==
    /\ pcall.op = "increase_quantity"
    /\ pcall.prev.op = "reduce_quantity"
    /\ pcall.prev.args = pcall.args
    /\ pcall.args[1] = MaxStock
    /\ pcall.prev.pre[1].quantity = MaxStock
    /\ pcall.pre[1].quantity = 0
    /\ sample_product[1].quantity = MaxStock

\* C16: Product(id, name, quantity, price) succeeds exactly when price > 0,
\* quantity >= 0 and the name is not blank.  When it fails no object exists
\* and the error is that of the first check that fails, in the order price
\* (InvalidPriceError), quantity (InvalidQuantityError), name (ValueError).
\* When it succeeds the object has the fields given and is_in_stock is true
\* exactly when quantity > 0.
C16_ProductConstruction ==
    pcall.op = "Product" =>
        LET name == pcall.args[2]
            quantity == pcall.args[3]
            price == pcall.args[4]
        IN  /\ pcall.ok <=> (price > 0 /\ quantity >= 0 /\ name \notin {"", " "})
            /\ ~pcall.ok =>
                  /\ sample_product = <<>>
                  /\ pcall.err.type =
                        IF price <= 0 THEN "InvalidPriceError"
                        ELSE IF quantity < 0 THEN "InvalidQuantityError"
                        ELSE "ValueError"
            /\ pcall.ok =>
                  /\ sample_product = <<[id |-> pcall.args[1], name |-> name,
                                         quantity |-> quantity, price |-> price]>>
                  /\ is_in_stock(sample_product[1]) <=> quantity > 0

\* a product built with no stock: it exists and is not in stock
C16_Witness ==
    /\ pcall.op = "Product"
    /\ pcall.ok
    /\ pcall.args[3] = 0
    /\ sample_product # <<>>
    /\ ~is_in_stock(sample_product[1])

\* C17: reduce_quantity and increase_quantity with an amount <= 0 fail with
\* InvalidQuantityError and leave the product unchanged, for reduce_quantity
\* whatever the stock is; increase_quantity with an amount > 0 succeeds and
\* the quantity goes up by exactly the amount, nothing else changing.
C17_AmountChecks ==
    pcall.op \in {"reduce_quantity", "increase_quantity"} =>
        LET p == pcall.pre[1]
            amount == pcall.args[1]
        IN  /\ amount <= 0 =>
                  /\ ~pcall.ok
                  /\ pcall.err.type = "InvalidQuantityError"
                  /\ pcall.err.value = amount
                  /\ sample_product = <<p>>
            /\ (amount > 0 /\ pcall.op = "increase_quantity") =>
                  /\ pcall.ok
                  /\ sample_product = <<[p EXCEPT !.quantity = p.quantity + amount]>>

\* reduce_quantity(0) refused on a product with no stock
C17_Witness ==
    /\ pcall.op = "reduce_quantity"
    /\ pcall.args[1] = 0
    /\ pcall.pre[1].quantity = 0
    /\ ~pcall.ok
    /\ pcall.err.type = "InvalidQuantityError"

\* no two rows of the products table have the same name
UniqueNames(tables) ==
    \A i, j \in DOMAIN tables.products :
        tables.products[i].name = tables.products[j].name => i = j

NameStored(tables, name) == \E id \in DOMAIN tables.products : tables.products[id].name = name

\* exactly one row was added, under an identity the table did not have
AddedOne(before, after, row) ==
    \E id \in DOMAIN after.products \ DOMAIN before.products :
        /\ after.products = (id :> row) @@ before.products
        /\ after.orders = before.orders
        /\ call.val.id = id

\* C18 as stated: the success case asks only for a new name and a valid
\* quantity and price.
C18_AsStated ==
    call.op = "create_product" =>
        LET name == call.args[1]
            quantity == call.args[2]
            price == call.args[3]
        IN  (~NameStored(call.pre, name) /\ quantity >= 0 /\ price > 0) =>
                /\ call.ok
                /\ AddedOne(call.pre, call.post,
                            [name |-> name, quantity |-> quantity, price |-> price])

\* C18: no two stored products share a name, in the session, as committed
\* and right after any call.  create_product with the name of a stored
\* product fails with the 'already exists' validation error and leaves the
\* store unchanged; with a name that is new and not blank, a quantity >= 0
\* and a price > 0 it adds exactly one product, under a fresh identity.
C18_UniqueNames ==
    /\ UniqueNames([products |-> products])
    /\ UniqueNames(committed)
    /\ UniqueNames(call.post)
    /\ call.op = "create_product" =>
        LET name == call.args[1]
            quantity == call.args[2]
            price == call.args[3]
        IN  /\ NameStored(call.pre, name) =>
                  /\ ~call.ok
                  /\ call.err.type = "ValueError"
                  /\ call.err.msg = "already exists"
                  /\ call.post = call.pre
            /\ (/\ ~NameStored(call.pre, name)
                /\ name \notin {"", " "}
                /\ quantity >= 0
                /\ price > 0) =>
                  /\ call.ok
                  /\ AddedOne(call.pre, call.post,
                              [name |-> name, quantity |-> quantity, price |-> price])

\* a stored name refused while another product is stored too
C18_Witness ==
    /\ call.op = "create_product"
    /\ ~call.ok
    /\ call.err.msg = "already exists"
    /\ NameStored(call.pre, call.args[1])
    /\ call.args[2] >= 0
    /\ call.args[3] > 0
    /\ Cardinality(DOMAIN products) = MaxProducts

\* C19: update_product_price of a stored product with a new price <= 0 fails
\* with InvalidPriceError before any update is issued to the store and leaves
\* the tables unchanged; with a new price > 0 it writes the product's row with
\* the same identity, name and quantity and the new price, returns that
\* product, and changes nothing else.
C19_UpdateProductPrice ==
    (call.op = "update_product_price" /\ call.args[1] \in DOMAIN call.pre.products) =>
        LET id == call.args[1]
            new_price == call.args[2]
            old == call.pre.products[id]
        IN  /\ new_price <= 0 =>
                  /\ ~call.ok
                  /\ call.err.type = "InvalidPriceError"
                  /\ call.err.value = new_price
                  /\ call.updates = 0
                  /\ call.post = call.pre
            /\ new_price > 0 =>
                  /\ call.ok
                  /\ call.updates = 1
                  /\ call.post.products =
                        [call.pre.products EXCEPT
                            ![id] = [name |-> old.name, quantity |-> old.quantity,
                                     price |-> new_price]]
                  /\ call.post.orders = call.pre.orders
                  /\ call.val = [id |-> id, name |-> old.name,
                                 quantity |-> old.quantity, price |-> new_price]

\* a price of zero refused for a stored product, with nothing written
C19_Witness ==
    /\ call.op = "update_product_price"
    /\ call.args[1] \in DOMAIN call.pre.products
    /\ call.args[2] <= 0
    /\ ~call.ok
    /\ call.updates = 0
    /\ products = call.pre.products

\* the total price of every stored order, as the order repository loads it
Totals(tables) ==
    [oid \in DOMAIN tables.orders |-> total_price(order_to_domain(tables, oid))]

\* C20: every line of an order written by create_order carries as
\* price_at_order the price its product had in the store when the call ran;
\* update_product_price, accepted or refused, leaves every order_items row,
\* price_at_order included, and the total price of every stored order as
\* they were.
C20_PriceLock ==
    /\ (call.op = "create_order" /\ call.ok) =>
          LET rows == call.post.orders[call.val.id].items IN
          /\ \A i \in 1..Len(rows) :
                rows[i].price_at_order = call.pre.products[rows[i].product_id].price
          /\ \A i \in 1..Len(call.val.items) :
                call.val.items[i].price_at_order = rows[i].price_at_order
    /\ call.op = "update_product_price" =>
          /\ call.post.orders = call.pre.orders
          /\ Totals(call.post) = Totals(call.pre)

\* the price of a product changed while an order holds a line of it at the
\* old price
C20_Witness ==
    /\ call.op = "update_product_price"
    /\ call.ok
    /\ \E oid \in DOMAIN orders :
          \E i \in 1..Len(orders[oid].items) :
            /\ orders[oid].items[i].product_id = call.args[1]
            /\ orders[oid].items[i].price_at_order = call.pre.products[call.args[1]].price
            /\ orders[oid].items[i].price_at_order # products[call.args[1]].price

\* C21: complete_order of a stored order succeeds exactly when its stored
\* status is confirmed, and then only the status column of that order
\* changes, to completed; otherwise it fails with a validation error and the
\* orders table is unchanged.  In both cases the products table and every
\* order_items row are as before.
C21_CompleteOrder ==
    (call.op = "complete_order" /\ call.args[1] \in DOMAIN call.pre.orders) =>
        LET id == call.args[1] IN
        /\ call.ok <=> call.pre.orders[id].status = "confirmed"
        /\ call.ok =>
              /\ call.post.orders = [call.pre.orders EXCEPT ![id].status = "completed"]
              /\ call.val.id = id
              /\ call.val.status = "completed"
        /\ ~call.ok =>
              /\ call.err.type = "ValueError"
              /\ call.post.orders = call.pre.orders
        /\ call.post.products = call.pre.products
        /\ call.updates = 0
        /\ \A oid \in DOMAIN call.pre.orders :
              call.post.orders[oid].items = call.pre.orders[oid].items

\* a confirmed order with a line completed
C21_Witness ==
    /\ call.op = "complete_order"
    /\ call.ok
    /\ call.args[1] \in DOMAIN call.pre.orders
    /\ call.pre.orders[call.args[1]].status = "confirmed"
    /\ call.pre.orders[call.args[1]].items # <<>>
    /\ orders[call.args[1]].status = "completed"

\* C22: when a unit of work block ends normally, every change made inside it
\* is committed: the committed tables are the tables the session held after
\* the block's last call, and the caller sees no exception.  When a call of
\* the block raises, the committed tables are those the block started with,
\* whatever the call had written before raising, and the exception reaches
\* the caller.  A new session starts from the committed tables.
C22_TransactionalBoundary ==
    /\ (uow = "closed" /\ call.op # "none") =>
          IF call.ok
          THEN /\ committed = call.post
               /\ ~call.raised
          ELSE /\ committed = call.start
               /\ call.raised
    /\ (uow = "open" /\ call.op = "none") => Now = committed

\* a block rolled back after its call had written to the products table
C22_Witness ==
    /\ uow = "closed"
    /\ ~call.ok
    /\ call.raised
    /\ call.post.products # call.start.products
    /\ committed = call.start
    /\ committed.products # <<>>

\* C23: a create_order that fails at any pair of its list (product not
\* found, insufficient stock, invalid quantity) inside a unit of work leaves,
\* once the block has exited, every committed product quantity as it was
\* before the call and no order added.
C23_CreateOrderAllOrNothing ==
    (uow = "closed" /\ call.op = "create_order" /\ ~call.ok) =>
        /\ call.err.type \in {"ProductNotFoundError", "InsufficientStockError",
                              "InvalidQuantityError"}
        /\ DOMAIN committed.products = DOMAIN call.pre.products
        /\ \A id \in DOMAIN committed.products :
              committed.products[id].quantity = call.pre.products[id].quantity
        /\ committed.orders = call.pre.orders
        /\ Now = committed

\* the first pair took stock, the second failed, and the block has exited
C23_Witness ==
    /\ uow = "closed"
    /\ call.op = "create_order"
    /\ ~call.ok
    /\ Len(call.args) = 2
    /\ \E id \in DOMAIN call.pre.products :
          /\ call.post.products[id].quantity < call.pre.products[id].quantity
          /\ committed.products[id].quantity = call.pre.products[id].quantity

\* the first pair the loop of create_order cannot get past, 0 when none
FailingPair(tables, pairs) ==
    IF \A i \in 1..Len(pairs) : Processable(tables, pairs, i) THEN 0
    ELSE CHOOSE k \in 1..Len(pairs) :
            /\ ~Processable(tables, pairs, k)
            /\ \A j \in 1..(k - 1) : Processable(tables, pairs, j)

\* C24 as stated: after a create_order that failed at its k-th pair, the
\* products of pairs 1..k-1 have lost what those pairs asked, the products of
\* pair k and of the later pairs have their quantity of before the call, and
\* no order is added.  A product named both before and from pair k on cannot
\* satisfy both.
C24_AsStated ==
    (call.op = "create_order" /\ ~call.ok) =>
        LET pairs == call.args
            k == FailingPair(call.pre, pairs)
        IN  /\ k > 0
            /\ \A j \in 1..(k - 1) :
                  call.post.products[pairs[j][1]].quantity =
                      call.pre.products[pairs[j][1]].quantity
                          - AskedBefore(pairs, k, pairs[j][1])
            /\ \A i \in k..Len(pairs) :
                  pairs[i][1] \in DOMAIN call.pre.products =>
                      call.post.products[pairs[i][1]] = call.pre.products[pairs[i][1]]
            /\ call.post.orders = call.pre.orders

\* C24 amended: after a create_order that failed at its k-th pair, read
\* before any rollback, every product has lost exactly what pairs 1..k-1
\* asked of it, so a product named only by pair k or later pairs is
\* unchanged; names and prices are unchanged and no order is added.
C24_PartialApplication ==
    (call.op = "create_order" /\ ~call.ok) =>
        LET pairs == call.args
            k == FailingPair(call.pre, pairs)
        IN  /\ k > 0
            /\ DOMAIN call.post.products = DOMAIN call.pre.products
            /\ \A id \in DOMAIN call.pre.products :
                  call.post.products[id] =
                      [call.pre.products[id] EXCEPT
                          !.quantity = @ - AskedBefore(pairs, k, id)]
            /\ call.updates = k - 1
            /\ call.post.orders = call.pre.orders

\* the first pair took stock of one product, the second pair failed on
\* another product
C24_Witness ==
    /\ call.op = "create_order"
    /\ ~call.ok
    /\ uow = "open"
    /\ Len(call.args) = 2
    /\ call.args[1][1] # call.args[2][1]
    /\ call.args[1][1] \in DOMAIN call.pre.products
    /\ call.args[2][1] \in DOMAIN call.pre.products
    /\ products[call.args[1][1]].quantity
          = call.pre.products[call.args[1][1]].quantity - call.args[1][2]
    /\ call.args[1][2] > 0
    /\ products[call.args[2][1]] = call.pre.products[call.args[2][1]]
    /\ orders = call.pre.orders

RECURSIVE QuantityUpTo(_, _)
\* the quantities of the first n lines, added up
QuantityUpTo(items, n) ==
    IF n = 0 THEN 0 ELSE QuantityUpTo(items, n - 1) + items[n].quantity

RECURSIVE ValueUpTo(_, _)
\* quantity x price_at_order of the first n lines, added up
ValueUpTo(items, n) ==
    IF n = 0 THEN 0
    ELSE ValueUpTo(items, n - 1) + items[n].quantity * items[n].price_at_order

\* C25: after any sequence of add_item and remove_item (and status changes)
\* on an order, total_items is the sum of the line quantities and
\* total_price the sum over the lines of quantity x price_at_order; both are
\* 0 when the order has no lines; an order just built has no lines and
\* status pending.
C25_Totals ==
    /\ total_items(order) = QuantityUpTo(order.items, Len(order.items))
    /\ total_price(order) = ValueUpTo(order.items, Len(order.items))
    /\ order.items = <<>> => (total_items(order) = 0 /\ total_price(order) = 0)
    /\ ocall.op = "none" => (order.items = <<>> /\ order.status = "pending")

\* two lines at different prices, one of quantity 2, left after a removal
C25_Witness ==
    /\ ocall.op = "remove_item"
    /\ Len(ocall.pre.items) = 3
    /\ Len(order.items) = 2
    /\ order.items[1].price_at_order # order.items[2].price_at_order
    /\ total_items(order) = 2
    /\ total_price(order) = 3

\* the use cases that take a product id, and those that take an order id
ProductUseCases == {"get_product", "update_product_price", "restock_product",
                    "delete_product"}
OrderUseCases == {"get_order", "cancel_order", "complete_order"}

\* C26: get_product, update_product_price, restock_product and
\* delete_product with a product id that is not in the products table fail
\* with ProductNotFoundError for that id; get_order, cancel_order and
\* complete_order with an order id that is not in the orders table fail with
\* OrderNotFoundError for that id; in each case no update is issued and both
\* tables are as before.
C26_NotFound ==
    /\ (call.op \in ProductUseCases /\ call.args[1] \notin DOMAIN call.pre.products) =>
          /\ ~call.ok
          /\ call.err.type = "ProductNotFoundError"
          /\ call.err.value = call.args[1]
          /\ call.updates = 0
          /\ call.post = call.pre
    /\ (call.op \in OrderUseCases /\ call.args[1] \notin DOMAIN call.pre.orders) =>
          /\ ~call.ok
          /\ call.err.type = "OrderNotFoundError"
          /\ call.err.value = call.args[1]
          /\ call.updates = 0
          /\ call.post = call.pre

\* an order looked up in a store that has products but not that order
C26_Witness ==
    /\ call.op = "get_order"
    /\ ~call.ok
    /\ call.err.type = "OrderNotFoundError"
    /\ call.args[1] \notin DOMAIN orders
    /\ products # <<>>
    /\ Now = call.pre

\* C27: restock_product of a stored product with a quantity > 0 succeeds and
\* raises that product's stored quantity by exactly the quantity, with one
\* update; its name and price, every other product and every order are
\* unchanged, and the product returned has the same identity.  With a
\* quantity <= 0 it fails with InvalidQuantityError, issues no update and
\* leaves both tables as they were.
C27_RestockProduct ==
    (call.op = "restock_product" /\ call.args[1] \in DOMAIN call.pre.products) =>
        LET id == call.args[1]
            quantity == call.args[2]
            old == call.pre.products[id]
        IN  /\ quantity > 0 =>
                  /\ call.ok
                  /\ call.updates = 1
                  /\ call.post.products =
                        [call.pre.products EXCEPT
                            ![id] = [name |-> old.name, price |-> old.price,
                                     quantity |-> old.quantity + quantity]]
                  /\ call.post.orders = call.pre.orders
                  /\ call.val = [id |-> id, name |-> old.name, price |-> old.price,
                                 quantity |-> old.quantity + quantity]
            /\ quantity <= 0 =>
                  /\ ~call.ok
                  /\ call.err.type = "InvalidQuantityError"
                  /\ call.err.value = quantity
                  /\ call.updates = 0
                  /\ call.post = call.pre

\* a product restocked by more than one while another product and an order
\* are stored
C27_Witness ==
    /\ call.op = "restock_product"
    /\ call.ok
    /\ call.args[2] = MaxQty
    /\ Cardinality(DOMAIN products) = MaxProducts
    /\ orders # <<>>
    /\ products[call.args[1]].quantity = call.pre.products[call.args[1]].quantity + MaxQty

\* C28: remove_item(product_id) raises nothing; the lines of any other
\* identity are kept as they were and in their order, every line of that
\* identity is gone, and the status and the id of the order are unchanged;
\* when no line matches the order is unchanged.
C28_RemoveItem ==
    ocall.op = "remove_item" =>
        LET before == ocall.pre.items
            after == order.items
            kept == {i \in 1..Len(before) : before[i].product.id # ocall.args[1]}
        IN  /\ ocall.ok
            /\ order.status = ocall.pre.status
            /\ order.id = ocall.pre.id
            /\ Len(after) = Cardinality(kept)
            /\ \A i \in kept : after[Cardinality({j \in kept : j <= i})] = before[i]
            /\ \A i \in 1..Len(after) : after[i].product.id # ocall.args[1]
            /\ kept = 1..Len(before) => order = ocall.pre

\* the middle one of three lines removed
C28_Witness ==
    /\ ocall.op = "remove_item"
    /\ ocall.ok
    /\ Len(ocall.pre.items) = 3
    /\ ocall.pre.items[2].product.id = ocall.args[1]
    /\ order.items = <<ocall.pre.items[1], ocall.pre.items[3]>>

\* C29: in every state an order built with the defaults can reach by
\* add_item, remove_item, confirm, complete and cancel, a confirmed order has
\* at least one line.
C29_ConfirmedHasLine ==
    order.status = "confirmed" => order.items # <<>>

\* the Product objects of the lines of a stored order, as order_repo.get
\* builds them from the tables
LineProducts(tables, order_id) ==
    [i \in 1..Len(tables.orders[order_id].items) |->
        order_to_domain(tables, order_id).items[i].product]

\* C30: the product data a line holds is the product's name, price and
\* quantity as of the order's creation: the lines of the order create_order
\* returns hold the products as they were stored before the call took their
\* stock, and restock_product, update_product_price and the creation or
\* cancellation of another order leave the line products of every stored
\* order, as read back from the store, as they were.
C30_SnapshotIsolation ==
    /\ (call.op = "create_order" /\ call.ok) =>
          \A i \in 1..Len(call.val.items) :
              LET held == call.val.items[i].product
                  row == call.pre.products[held.id]
              IN  /\ held.name = row.name
                  /\ held.price = row.price
                  /\ held.quantity = row.quantity
    /\ (call.op \in {"restock_product", "update_product_price", "create_order",
                     "cancel_order"}) =>
          \A oid \in DOMAIN call.pre.orders :
              (call.op = "cancel_order" => oid # call.args[1]) =>
                  LineProducts(call.post, oid) = LineProducts(call.pre, oid)

\* C31: whenever a unit of work block has been left, normally, by a
\* propagated exception, or with the commit or rollback of __exit__ itself
\* failing, exactly one of commit and rollback was attempted on its session
\* (commit exactly when the block ended normally) and the session is closed.
C31_SessionReleased ==
    (uow \in {"closed", "failed"} /\ uow_session.state # "none") =>
        /\ uow_session.commits + uow_session.rollbacks = 1
        /\ uow_session.commits = 1 <=> call.ok
        /\ uow_session.state = "closed"

\* ------------------------------------- two callers inside create_order
\* Two callers run create_order([(1, quantity)]) on the same stored product
\* at the same time, on a store that gives them no isolation: each store
\* operation (product_repo.get, product_repo.update, order_repo.add) is one
\* step and sees what the other caller has written so far.  callers.at[c] is
\* caller c's position in create_order with its locals, callers.initial the
\* stock both started from, callers.last the caller that wrote the product
\* row last.
Callers == {1, 2}

InitRace ==
    /\ \E quantity \in 0..MaxStock, price \in Prices :
          products = 1 :> [name |-> "a", quantity |-> quantity, price |-> price]
    /\ orders = <<>>
    /\ committed = EmptyTables
    /\ uow = "closed"
    /\ baseline = <<>>
    /\ call = NoCall
    /\ order = Order(NoId, "pending")
    /\ ocall = NoOCall
    /\ sample_product = <<>>
    /\ pcall = NoPCall
    /\ uow_session = NoSession
    /\ \E asked \in [Callers -> 1..MaxQty] :
          callers = [initial |-> products[1].quantity, last |-> 0,
                     at |-> [c \in Callers |->
                               [pc |-> "start", quantity |-> asked[c], loaded |-> 0,
                                product |-> NoId, order |-> Order(NoId, "pending")]]]

RaceStep(c, now, last) ==
    /\ callers' = [callers EXCEPT !.at[c] = now, !.last = last]
    /\ UNCHANGED <<committed, uow, baseline, call, order, ocall, sample_product, pcall,
                   uow_session>>

\* product = self.get_product(product_id), the stock check, order.add_item
\* and product.reduce_quantity on the caller's own copy
RaceLoad(c) ==
    LET me == callers.at[c]
        product == get_product(Ctx, 1)
        added == add_item(me.order, product.val, me.quantity)
        reduced == reduce_quantity(product.val, me.quantity)
    IN  /\ me.pc = "start"
        /\ product.ok
        /\ IF product.val.quantity < me.quantity
           THEN RaceStep(c, [me EXCEPT !.pc = "raised",
                                       !.loaded = product.val.quantity], callers.last)
           ELSE RaceStep(c, [me EXCEPT !.pc = "loaded",
                                       !.loaded = product.val.quantity,
                                       !.product = reduced.val,
                                       !.order = SameObject(me.order, added.val,
                                                            reduced.val)],
                         callers.last)
        /\ UNCHANGED <<products, orders>>

\* mutant: the update decrements the row as it is now, not as it was loaded
RacePersist_decrement(c) ==
    LET me == callers.at[c]
        upd == product_repo_update(Ctx, [me.product EXCEPT
                   !.quantity = products[1].quantity - me.quantity])
    IN  /\ me.pc = "loaded"
        /\ products' = upd.ctx.products
        /\ RaceStep(c, [me EXCEPT !.pc = "persisted"], c)
        /\ UNCHANGED orders

\* self.product_repo.update(product)
RacePersist(c) ==
    LET me == callers.at[c]
        upd == product_repo_update(Ctx, me.product)
    IN  /\ me.pc = "loaded"
        /\ products' = upd.ctx.products
        /\ RaceStep(c, [me EXCEPT !.pc = "persisted"], c)
        /\ UNCHANGED orders

\* return self.order_repo.add(order)
RaceAdd(c) ==
    LET me == callers.at[c]
        added == order_repo_add(Ctx, me.order)
    IN  /\ me.pc = "persisted"
        /\ orders' = added.ctx.orders
        /\ RaceStep(c, [me EXCEPT !.pc = "done", !.order = added.val], callers.last)
        /\ UNCHANGED products

NextRace == \E c \in Callers : RaceLoad(c) \/ RacePersist(c) \/ RaceAdd(c)

SpecRace == InitRace /\ [][NextRace]_vars

\* what the two callers' stored orders hold of the product
RaceHeld == LineQty(IF 1 \in DOMAIN orders THEN orders[1].items ELSE <<>>, 1)
            + LineQty(IF 2 \in DOMAIN orders THEN orders[2].items ELSE <<>>, 1)

\* C32: the core does no locking.  A caller inside create_order is never
\* held back by the other one; the product row is always what the last
\* update wrote, which is the quantity that caller had loaded less its own
\* request, whatever the other caller wrote in between.  So once both
\* orders are stored the stock removed is either the sum of the two requests
\* or, when the last writer had loaded the row before the other one wrote
\* it, the last writer's request alone.
C32_NoLocking ==
    /\ callers.at # <<>> =>
          \A c \in Callers :
              callers.at[c].pc \notin {"done", "raised"} =>
                  ENABLED (RaceLoad(c) \/ RacePersist(c) \/ RaceAdd(c))
    /\ callers.last # 0 =>
          products[1].quantity = callers.at[callers.last].loaded
                                   - callers.at[callers.last].quantity
    /\ (callers.last # 0 /\ \A c \in Callers : callers.at[c].pc = "done") =>
          LET removed == callers.initial - products[1].quantity
              mine == callers.at[callers.last]
          IN  /\ RaceHeld = callers.at[1].quantity + callers.at[2].quantity
              /\ removed = IF mine.loaded = callers.initial THEN mine.quantity
                           ELSE RaceHeld

\* the lost update: both orders are stored, the stock went down by one
\* request only, and the pending orders hold more than was removed
C32_Witness ==
    /\ callers.at # <<>>
    /\ \A c \in Callers : callers.at[c].pc = "done"
    /\ DOMAIN orders = {1, 2}
    /\ orders[1].status = "pending"
    /\ orders[2].status = "pending"
    /\ callers.initial - products[1].quantity = callers.at[callers.last].quantity
    /\ RaceHeld > callers.initial - products[1].quantity
    /\ RaceHeld > callers.initial

\* C33: on the order it loads, complete_order does what Order.complete()
\* does: for an order in any status it returns normally exactly when
\* complete() would, with the same kind of error otherwise, and on success
\* the order it returns is the one complete() leaves, status completed and
\* the lines as loaded.
C33_CompleteEquivalence ==
    (call.op = "complete_order" /\ call.args[1] \in DOMAIN call.pre.orders) =>
        LET loaded == order_to_domain(call.pre, call.args[1])
            entity == complete(loaded)
        IN  /\ call.ok <=> entity.ok
            /\ call.err.type = entity.err.type
            /\ call.ok =>
                  /\ call.val = entity.val
                  /\ call.val.status = "completed"
                  /\ call.val.items = loaded.items
                  /\ call.post.orders[call.args[1]].status = entity.val.status

\* both refuse a cancelled order that has a line
C33_Witness ==
    /\ call.op = "complete_order"
    /\ call.args[1] \in DOMAIN call.pre.orders
    /\ call.pre.orders[call.args[1]].status = "cancelled"
    /\ call.pre.orders[call.args[1]].items # <<>>
    /\ ~call.ok
    /\ ~complete(order_to_domain(call.pre, call.args[1])).ok

\* every order_items row names a product that has a row
LinesResolve(tables) ==
    \A oid \in DOMAIN tables.orders :
        \A i \in 1..Len(tables.orders[oid].items) :
            tables.orders[oid].items[i].product_id \in DOMAIN tables.products

\* C34: starting from empty tables and using the service alone, every line
\* of every stored order names a stored product, in the session, as
\* committed and right after any call; and cancel_order never fails with
\* ProductNotFoundError for a product of a line: it raises it for no stored
\* order at all.
C34_ReferentialIntegrity ==
    /\ LinesResolve(Now)
    /\ LinesResolve(committed)
    /\ LinesResolve(call.post)
    /\ call.op = "cancel_order" => call.err.type # "ProductNotFoundError"
    /\ (call.op = "cancel_order" /\ call.args[1] \in DOMAIN call.pre.orders
          /\ call.pre.orders[call.args[1]].status \in {"pending", "confirmed"}) => call.ok

\* a pending order with a line of every stored product cancelled
C34_Witness ==
    /\ call.op = "cancel_order"
    /\ call.ok
    /\ call.args[1] \in DOMAIN call.pre.orders
    /\ Len(call.pre.orders[call.args[1]].items) = MaxProducts
    /\ call.updates = MaxProducts
    /\ LinesResolve(Now)

\* every stored order is pending or cancelled
NeverConfirmed(tables) ==
    \A oid \in DOMAIN tables.orders :
        tables.orders[oid].status \in {"pending", "cancelled"}

\* C35: starting from empty tables and using the service alone, every stored
\* order is pending or cancelled, in the session, as committed and right
\* after any call; complete_order never succeeds.
C35_NoConfirmUseCase ==
    /\ NeverConfirmed(Now)
    /\ NeverConfirmed(committed)
    /\ NeverConfirmed(call.post)
    /\ call.op = "complete_order" => ~call.ok

\* complete_order refused on a stored pending order that has lines
C35_Witness ==
    /\ call.op = "complete_order"
    /\ ~call.ok
    /\ call.err.type = "ValueError"
    /\ call.args[1] \in DOMAIN orders
    /\ orders[call.args[1]].status = "pending"
    /\ orders[call.args[1]].items # <<>>

\* C36: after any sequence of add_item and remove_item (and status changes)
\* on an order built empty, no two lines hold products of the same identity;
\* products without identity (id None) count as one identity and share one
\* line.
C36_OneLinePerIdentity ==
    \A i, j \in 1..Len(order.items) :
        order.items[i].product.id = order.items[j].product.id => i = j

\* a second product without identity, at another price, merged into the line
\* of the first
C36_Witness ==
    /\ ocall.op = "add_item"
    /\ ocall.ok
    /\ ocall.args[1].id = NoId
    /\ Len(order.items) = Len(ocall.pre.items)
    /\ Len(order.items) >= 2
    /\ \E i \in 1..Len(order.items) :
          /\ order.items[i].product.id = NoId
          /\ order.items[i].product # ocall.args[1]
          /\ order.items[i].quantity = ocall.pre.items[i].quantity + ocall.args[2]

\* all that the pairs ask of a product
Asked(pairs, product_id) == AskedBefore(pairs, Len(pairs) + 1, product_id)

\* the list names some product more than once, and only stored products
NamesTwice(tables, pairs) ==
    /\ \E i, j \in 1..Len(pairs) : i # j /\ pairs[i][1] = pairs[j][1]
    /\ \A i \in 1..Len(pairs) : pairs[i][1] \in DOMAIN tables.products

\* one line per product named, holding all that was asked of it, and the
\* stock of every product down by as much
MergedAndTaken(pre, post, pairs, id) ==
    /\ \A pid \in DOMAIN pre.products :
          /\ LineQty(post.orders[id].items, pid) = Asked(pairs, pid)
          /\ Cardinality({i \in 1..Len(post.orders[id].items) :
                             post.orders[id].items[i].product_id = pid})
                = IF \E i \in 1..Len(pairs) : pairs[i][1] = pid THEN 1 ELSE 0
          /\ post.products[pid].quantity = pre.products[pid].quantity - Asked(pairs, pid)

EmptyStored(tables, id) == id \in DOMAIN tables.orders /\ tables.orders[id].items = <<>>

====
